---- MODULE Spec2Model ----
(***************************************************************************)
(* test-python-errors.py: a stored text file of ten labelled, deliberately *)
(* broken Python fragments, the consumers that read it line by line, and   *)
(* a Python loader (tokenizer, parser, top-level run, calls) applied to    *)
(* the whole file and to each fragment on its own.                         *)
(***************************************************************************)
EXTENDS Integers, Sequences, FiniteSets, TLC

VARIABLES
  content,   \* the stored file: a sequence of lines, each a sequence of characters
  rpos,      \* rpos[c]: number of lines consumer c has read since it opened the file
  rgot,      \* rgot[c]: the lines returned to consumer c since it opened the file
  unit,      \* what the loader is loading: 0 the whole file, n the fragment n alone
  tokFirst,  \* the loader reports tokenizer errors of the rest of the source first
  phase,     \* "idle", "parse", "scan", "run", "call", "failed", "done"
  ln,        \* the next physical line the tokenizer reads
  midline,   \* the indentation of line ln is consumed, its tokens are not
  indents,   \* the tokenizer's indentation stack: <<col, altcol>> pairs
  expect,    \* line of the compound statement that awaits its indented block, or 0
  pending,   \* tokens of the logical line read so far (inside open brackets)
  opens,     \* the open brackets: <<bracket, line>> pairs
  stmts,     \* the statements parsed so far: [line, col, kind, name, expr]
  err,       \* the failure: [exc, msg, line, within], or NoErr
  pc,        \* run and call phases: index in stmts of the next statement
  callee,    \* call phase: index in stmts of the def being called, or 0
  globals,   \* names bound at module level
  locals,    \* names bound in the call in progress
  executed,  \* lines of the statements that have been executed
  results    \* results[n]: the class of mistake reported for fragment n

readerVars == <<rpos, rgot>>
loaderVars == <<unit, tokFirst, phase, ln, midline, indents, expect, pending,
                opens, stmts, err, pc, callee, globals, locals, executed, results>>
vars == <<content, rpos, rgot, unit, tokFirst, phase, ln, midline, indents,
          expect, pending, opens, stmts, err, pc, callee, globals, locals, executed,
          results>>

\* Number of consumers that read the file concurrently.
NReaders == 2

Readers == 1..NReaders

\* The text of src/test-python-errors.py, character by character.
SourceText ==
  <<
    \* line 1
    <<"#"," ","P","y","t","h","o","n"," ","t","e","s","t"," ","f","i","l","e"," ","w","i","t","h"," ","i","n","t","e","n","t","i","o","n","a","l"," ","e","r","r","o","r","s"," ","f","o","r"," ","t","e","s","t","i","n","g"," ","e","r","r","o","r"," ","d","e","t","e","c","t","i","o","n">>,
    \* line 2
    <<>>,
    \* line 3
    <<"#"," ","1","."," ","S","y","n","t","a","x"," ","E","r","r","o","r"," ","-"," ","I","n","v","a","l","i","d"," ","i","n","d","e","n","t","a","t","i","o","n">>,
    \* line 4
    <<"d","e","f"," ","b","r","o","k","e","n","_","f","u","n","c","t","i","o","n","(",")",":">>,
    \* line 5
    <<"p","r","i","n","t","(","\"","T","h","i","s"," ","s","h","o","u","l","d"," ","b","e"," ","i","n","d","e","n","t","e","d","\"",")">>,
    \* line 6
    <<" "," "," "," ","r","e","t","u","r","n"," ","T","r","u","e">>,
    \* line 7
    <<>>,
    \* line 8
    <<"#"," ","2","."," ","S","y","n","t","a","x"," ","E","r","r","o","r"," ","-"," ","M","i","s","s","i","n","g"," ","c","o","l","o","n">>,
    \* line 9
    <<"d","e","f"," ","a","n","o","t","h","e","r","_","b","r","o","k","e","n","_","f","u","n","c","t","i","o","n","(",")">>,
    \* line 10
    <<" "," "," "," ","r","e","t","u","r","n"," ","F","a","l","s","e">>,
    \* line 11
    <<>>,
    \* line 12
    <<"#"," ","3","."," ","N","a","m","e"," ","E","r","r","o","r"," ","-"," ","U","n","d","e","f","i","n","e","d"," ","v","a","r","i","a","b","l","e">>,
    \* line 13
    <<"d","e","f"," ","u","s","e","_","u","n","d","e","f","i","n","e","d","_","v","a","r","i","a","b","l","e","(",")",":">>,
    \* line 14
    <<" "," "," "," ","p","r","i","n","t","(","u","n","d","e","f","i","n","e","d","_","v","a","r","i","a","b","l","e",")">>,
    \* line 15
    <<" "," "," "," ","r","e","t","u","r","n"," ","r","e","s","u","l","t">>,
    \* line 16
    <<>>,
    \* line 17
    <<"#"," ","4","."," ","T","y","p","e"," ","E","r","r","o","r"," ","-"," ","U","n","s","u","p","p","o","r","t","e","d"," ","o","p","e","r","a","t","i","o","n">>,
    \* line 18
    <<"d","e","f"," ","t","y","p","e","_","e","r","r","o","r","_","e","x","a","m","p","l","e","(",")",":">>,
    \* line 19
    <<" "," "," "," ","r","e","t","u","r","n"," ","\"","s","t","r","i","n","g","\""," ","+"," ","5">>,
    \* line 20
    <<>>,
    \* line 21
    <<"#"," ","5","."," ","S","y","n","t","a","x"," ","E","r","r","o","r"," ","-"," ","I","n","v","a","l","i","d"," ","d","i","c","t","i","o","n","a","r","y">>,
    \* line 22
    <<"b","r","o","k","e","n","_","d","i","c","t"," ","="," ","{">>,
    \* line 23
    <<" "," "," "," ","\"","k","e","y","1","\"",":"," ","\"","v","a","l","u","e","1","\"",",">>,
    \* line 24
    <<" "," "," "," ","\"","k","e","y","2","\"",":"," ","\"","v","a","l","u","e","2","\"">>,
    \* line 25
    <<" "," "," "," ","\"","k","e","y","3","\"",":"," ","\"","v","a","l","u","e","3","\""," "," ","#"," ","M","i","s","s","i","n","g"," ","c","o","m","m","a">>,
    \* line 26
    <<"}">>,
    \* line 27
    <<>>,
    \* line 28
    <<"#"," ","6","."," ","I","m","p","o","r","t"," ","E","r","r","o","r"," ","-"," ","N","o","n","-","e","x","i","s","t","e","n","t"," ","m","o","d","u","l","e">>,
    \* line 29
    <<"i","m","p","o","r","t"," ","n","o","n","_","e","x","i","s","t","e","n","t","_","m","o","d","u","l","e">>,
    \* line 30
    <<>>,
    \* line 31
    <<"#"," ","7","."," ","S","y","n","t","a","x"," ","E","r","r","o","r"," ","-"," ","I","n","v","a","l","i","d"," ","f","u","n","c","t","i","o","n"," ","c","a","l","l">>,
    \* line 32
    <<"d","e","f"," ","i","n","v","a","l","i","d","_","c","a","l","l","(",")",":">>,
    \* line 33
    <<" "," "," "," ","r","e","t","u","r","n"," ","s","o","m","e","_","f","u","n","c","t","i","o","n","(","p","a","r","a","m","1",","," ","p","a","r","a","m","2",",",")"," "," ","#"," ","T","r","a","i","l","i","n","g"," ","c","o","m","m","a"," ","i","n"," ","w","r","o","n","g"," ","p","l","a","c","e">>,
    \* line 34
    <<>>,
    \* line 35
    <<"#"," ","8","."," ","S","y","n","t","a","x"," ","E","r","r","o","r"," ","-"," ","U","n","c","l","o","s","e","d"," ","s","t","r","i","n","g">>,
    \* line 36
    <<"b","r","o","k","e","n","_","s","t","r","i","n","g"," ","="," ","\"","T","h","i","s"," ","s","t","r","i","n","g"," ","i","s"," ","n","o","t"," ","c","l","o","s","e","d">>,
    \* line 37
    <<>>,
    \* line 38
    <<"#"," ","9","."," ","I","n","d","e","n","t","a","t","i","o","n"," ","E","r","r","o","r"," ","-"," ","M","i","x","e","d"," ","t","a","b","s"," ","a","n","d"," ","s","p","a","c","e","s">>,
    \* line 39
    <<"d","e","f"," ","m","i","x","e","d","_","i","n","d","e","n","t","a","t","i","o","n","(",")",":">>,
    \* line 40
    <<" "," "," "," ","i","f"," ","T","r","u","e",":">>,
    \* line 41
    <<" "," "," "," "," "," "," "," ","p","r","i","n","t","(","\"","s","p","a","c","e","s","\"",")">>,
    \* line 42
    <<"\t","p","r","i","n","t","(","\"","t","a","b","s","\"",")"," "," ","#"," ","T","h","i","s"," ","l","i","n","e"," ","u","s","e","s"," ","t","a","b","s">>,
    \* line 43
    <<>>,
    \* line 44
    <<"#"," ","1","0","."," ","S","y","n","t","a","x"," ","E","r","r","o","r"," ","-"," ","I","n","v","a","l","i","d"," ","a","s","s","i","g","n","m","e","n","t">>,
    \* line 45
    <<"5"," ","="," ","v","a","r","i","a","b","l","e","_","n","a","m","e">>
  >>

\* The text with the header of fragment 8 numbered 7, as a copied header would be.
FileHeaderRepeated == [SourceText EXCEPT ![35][3] = "7"]

\* The text with the colon of line 9 in place: fragment 2 is then valid code.
FileColonFixed == [SourceText EXCEPT ![9] = Append(@, ":")]

\* The text with the def of line 32 named as the def of line 4 is.
FileSharedName == [SourceText EXCEPT ![32] = SourceText[4]]

File == SourceText

(***************************************************************************)
(* Characters and lines.                                                   *)
(***************************************************************************)
Digits == <<"0","1","2","3","4","5","6","7","8","9">>

Letters ==
  {"a","b","c","d","e","f","g","h","i","j","k","l","m","n","o","p","q","r",
   "s","t","u","v","w","x","y","z","A","B","C","D","E","F","G","H","I","J",
   "K","L","M","N","O","P","Q","R","S","T","U","V","W","X","Y","Z","_"}

IsDigit(c) == \E d \in 1..10 : Digits[d] = c

DigitVal(c) == (CHOOSE d \in 1..10 : Digits[d] = c) - 1

IsSpace(c) == c = " " \/ c = "\t"

\* Number of leading blanks and tabs of a line.
RECURSIVE LeadLen(_, _)
LeadLen(line, i) ==
  IF i <= Len(line) /\ IsSpace(line[i]) THEN LeadLen(line, i + 1) ELSE i - 1

IsBlankLine(line) == LeadLen(line, 1) = Len(line)

IsCommentLine(line) ==
  LET k == LeadLen(line, 1) IN k < Len(line) /\ line[k + 1] = "#"

\* The decimal number that starts at line[i]: <<value, index after it>>.
RECURSIVE ReadNumber(_, _, _)
ReadNumber(line, i, acc) ==
  IF i <= Len(line) /\ IsDigit(line[i])
  THEN ReadNumber(line, i + 1, acc * 10 + DigitVal(line[i]))
  ELSE <<acc, i>>

\* A fragment header is a comment "# <number>. <label>"; 0 for any other line.
HeaderNumber(line) ==
  IF Len(line) >= 4 /\ line[1] = "#" /\ line[2] = " " /\ IsDigit(line[3])
  THEN LET r == ReadNumber(line, 3, 0)
       IN IF r[2] + 1 <= Len(line) /\ line[r[2]] = "." /\ line[r[2] + 1] = " "
          THEN r[1] ELSE 0
  ELSE 0

IsHeader(line) == HeaderNumber(line) > 0

\* The lines of text `txt` that are fragment headers, in file order.
HeaderLines(txt) == {i \in 1..Len(txt) : IsHeader(txt[i])}

\* Fragment of header line h: from h to the line before the next header, or the end.
FragmentEnd(txt, h) ==
  LET later == {j \in HeaderLines(txt) : j > h}
  IN IF later = {} THEN Len(txt)
     ELSE (CHOOSE j \in later : \A k \in later : j <= k) - 1

\* A snippet line: neither blank nor a comment.
IsSnippetLine(line) == ~IsBlankLine(line) /\ ~IsCommentLine(line)

\* The header line of the fragment numbered n (0 when there is none).
HeaderOf(txt, n) ==
  LET hs == {h \in HeaderLines(txt) : HeaderNumber(txt[h]) = n}
  IN IF hs = {} THEN 0 ELSE CHOOSE h \in hs : \A k \in hs : h <= k

\* Index of the first " - " of the line at or after i, 0 when there is none.
RECURSIVE DashAt(_, _)
DashAt(line, i) ==
  IF i + 2 > Len(line) THEN 0
  ELSE IF line[i] = " " /\ line[i + 1] = "-" /\ line[i + 2] = " " THEN i
  ELSE DashAt(line, i + 1)

\* The label of a header "# <number>. <label> - <description>".
HeaderLabel(line) ==
  LET from == ReadNumber(line, 3, 0)[2] + 2
      dash == DashAt(line, from)
  IN IF dash = 0 THEN SubSeq(line, from, Len(line)) ELSE SubSeq(line, from, dash - 1)

S_SyntaxError == <<"S","y","n","t","a","x"," ","E","r","r","o","r">>
S_IndentationError ==
  <<"I","n","d","e","n","t","a","t","i","o","n"," ","E","r","r","o","r">>
S_NameError == <<"N","a","m","e"," ","E","r","r","o","r">>
S_TypeError == <<"T","y","p","e"," ","E","r","r","o","r">>
S_ImportError == <<"I","m","p","o","r","t"," ","E","r","r","o","r">>

\* The exception a header announces, "" when its label names none.
AnnouncedExc(line) ==
  LET l == HeaderLabel(line) IN
    IF l = S_SyntaxError THEN "SyntaxError"
    ELSE IF l = S_IndentationError THEN "IndentationError"
    ELSE IF l = S_NameError THEN "NameError"
    ELSE IF l = S_TypeError THEN "TypeError"
    ELSE IF l = S_ImportError THEN "ImportError"
    ELSE ""

\* Python's exception hierarchy, as far as the file's failures go.
BaseOf(exc) ==
  IF exc = "TabError" THEN "IndentationError"
  ELSE IF exc = "IndentationError" THEN "SyntaxError"
  ELSE IF exc = "ModuleNotFoundError" THEN "ImportError"
  ELSE ""

\* exc is the exception base or one of its subclasses.
IsA(exc, base) ==
  exc # "" /\ (exc = base \/ BaseOf(exc) = base \/ BaseOf(BaseOf(exc)) = base)

(***************************************************************************)
(* The tokenizer.  A token is [k, v, ln]: kind, text, physical line.       *)
(***************************************************************************)
S_def == <<"d","e","f">>
S_if == <<"i","f">>
S_return == <<"r","e","t","u","r","n">>
S_import == <<"i","m","p","o","r","t">>
S_True == <<"T","r","u","e">>
S_False == <<"F","a","l","s","e">>
S_print == <<"p","r","i","n","t">>

Keywords == {S_def, S_if, S_return, S_import, S_True, S_False}

IsIdStart(c) == c \in Letters

IsIdChar(c) == c \in Letters \/ IsDigit(c)

\* Index after the identifier (or number) that starts at line[i].
RECURSIVE WordEnd(_, _)
WordEnd(line, i) ==
  IF i <= Len(line) /\ IsIdChar(line[i]) THEN WordEnd(line, i + 1) ELSE i

\* Index of the quote that closes the string opened with q before line[i];
\* 0 when the line ends first (a backslash escapes the next character).
RECURSIVE StringEnd(_, _, _)
StringEnd(line, i, q) ==
  IF i > Len(line) THEN 0
  ELSE IF line[i] = "\\" THEN StringEnd(line, i + 2, q)
  ELSE IF line[i] = q THEN i
  ELSE StringEnd(line, i + 1, q)

\* Tokens of one physical line from line[i] on; bad: a string is not closed.
RECURSIVE LexFrom(_, _, _, _)
LexFrom(line, i, lnno, acc) ==
  IF i > Len(line) THEN [toks |-> acc, bad |-> FALSE]
  ELSE LET c == line[i] IN
    IF IsSpace(c) THEN LexFrom(line, i + 1, lnno, acc)
    ELSE IF c = "#" THEN [toks |-> acc, bad |-> FALSE]
    ELSE IF IsIdStart(c) THEN
      LET j == WordEnd(line, i)
          w == SubSeq(line, i, j - 1)
          k == IF w \in Keywords THEN "kw" ELSE "name"
      IN LexFrom(line, j, lnno, Append(acc, [k |-> k, v |-> w, ln |-> lnno]))
    ELSE IF IsDigit(c) THEN
      LET j == WordEnd(line, i)
      IN LexFrom(line, j, lnno,
                 Append(acc, [k |-> "num", v |-> SubSeq(line, i, j - 1), ln |-> lnno]))
    ELSE IF c = "\"" \/ c = "'" THEN
      LET e == StringEnd(line, i + 1, c)
      IN IF e = 0 THEN [toks |-> acc, bad |-> TRUE]
         ELSE LexFrom(line, e + 1, lnno,
                      Append(acc, [k |-> "str", v |-> SubSeq(line, i + 1, e - 1),
                                   ln |-> lnno]))
    ELSE LexFrom(line, i + 1, lnno, Append(acc, [k |-> "op", v |-> <<c>>, ln |-> lnno]))

Lex(line, lnno) == LexFrom(line, 1, lnno, <<>>)

IsOp(t, c) == t.k = "op" /\ t.v = <<c>>

IsKw(t, w) == t.k = "kw" /\ t.v = w

\* The bracket stack after the tokens toks[i..]: <<bracket, line>> pairs.
\* A closing bracket pops the innermost open one.
RECURSIVE Brackets(_, _, _)
Brackets(toks, i, stack) ==
  IF i > Len(toks) THEN stack
  ELSE IF toks[i].k = "op" /\ toks[i].v[1] \in {"(", "{", "["}
       THEN Brackets(toks, i + 1, Append(stack, <<toks[i].v[1], toks[i].ln>>))
  ELSE IF toks[i].k = "op" /\ toks[i].v[1] \in {")", "}", "]"} /\ Len(stack) > 0
       THEN Brackets(toks, i + 1, SubSeq(stack, 1, Len(stack) - 1))
  ELSE Brackets(toks, i + 1, stack)

\* Column of the first character after the leading whitespace: a tab moves to
\* the next multiple of TabSize; in the alternate column a tab counts as one.
TabSize == 8

RECURSIVE IndentCol(_, _, _)
IndentCol(line, i, col) ==
  IF i > Len(line) \/ ~IsSpace(line[i]) THEN col
  ELSE IF line[i] = "\t" THEN IndentCol(line, i + 1, (col \div TabSize + 1) * TabSize)
  ELSE IndentCol(line, i + 1, col + 1)

AltCol(line) == LeadLen(line, 1)

Top(s) == s[Len(s)]

\* Indentation stack without the levels deeper than col.
RECURSIVE PopTo(_, _)
PopTo(stack, col) ==
  IF Len(stack) > 1 /\ col < Top(stack)[1]
  THEN PopTo(SubSeq(stack, 1, Len(stack) - 1), col) ELSE stack

\* The tokenizer at the start of a logical line: the new stack, whether an
\* INDENT was produced, and the tokenizer's own error ("" for none).
IndentStep(stack, col, alt) ==
  IF col = Top(stack)[1] THEN
    [stack |-> stack, indent |-> FALSE,
     error |-> IF alt # Top(stack)[2] THEN "tab" ELSE ""]
  ELSE IF col > Top(stack)[1] THEN
    [stack |-> Append(stack, <<col, alt>>), indent |-> TRUE,
     error |-> IF alt <= Top(stack)[2] THEN "tab" ELSE ""]
  ELSE LET s == PopTo(stack, col) IN
    [stack |-> s, indent |-> FALSE,
     error |-> IF col # Top(s)[1] THEN "dedent"
               ELSE IF alt # Top(s)[2] THEN "tab" ELSE ""]
(***************************************************************************)
(* The names a fragment binds and the names it refers to.                  *)
(***************************************************************************)
\* Token i is a name in a binding position: after def or import, or the
\* target of an assignment at the start of the line.
Binds(toks, i) ==
  /\ toks[i].k = "name"
  /\ \/ i > 1 /\ (IsKw(toks[i - 1], S_def) \/ IsKw(toks[i - 1], S_import))
     \/ i = 1 /\ Len(toks) >= 2 /\ IsOp(toks[2], "=")

DefinedIn(toks) == {toks[i].v : i \in {j \in 1..Len(toks) : Binds(toks, j)}}

UsedIn(toks) ==
  {toks[i].v : i \in {j \in 1..Len(toks) : toks[j].k = "name" /\ ~Binds(toks, j)}}

\* The lines of the fragment numbered n.
FragmentLines(txt, n) ==
  LET h == HeaderOf(txt, n) IN IF h = 0 THEN {} ELSE h..FragmentEnd(txt, h)

FragmentDefs(txt, n) ==
  UNION {DefinedIn(Lex(txt[j], j).toks) : j \in FragmentLines(txt, n)}

FragmentUses(txt, n) ==
  UNION {UsedIn(Lex(txt[j], j).toks) : j \in FragmentLines(txt, n)}

(***************************************************************************)
(* The parser: expressions and statements of one logical line.  An         *)
(* expression is compiled to postfix code, the order in which it is        *)
(* evaluated: LOAD name, CONST, ADD, CALL n, DICT n.  A parse result is    *)
(* [ok |-> TRUE, i, code] (i: index of the next token) or                  *)
(* [ok |-> FALSE, at] (at: index of the token that cannot continue it).    *)
(***************************************************************************)
Fail(at) == [ok |-> FALSE, at |-> at]

Done(i, code) == [ok |-> TRUE, i |-> i, code |-> code]

Has(toks, i, c) == i <= Len(toks) /\ IsOp(toks[i], c)

\* Adjacent string literals are one string: index after the run that starts at i.
RECURSIVE StrRunEnd(_, _)
StrRunEnd(toks, i) ==
  IF i <= Len(toks) /\ toks[i].k = "str" THEN StrRunEnd(toks, i + 1) ELSE i

Load(name) == [op |-> "LOAD", v |-> name, n |-> 0, ty |-> ""]

Const(ty, text) == [op |-> "CONST", v |-> text, n |-> 0, ty |-> ty]

Instr(op, n) == [op |-> op, v |-> <<>>, n |-> n, ty |-> ""]

\* A frame of the parser's stack: the bracket it is in ("" for the expression
\* itself), the part of a dictionary item ("key" or "val"), the number of
\* arguments or items completed, and whether a "+" awaits its right operand.
Frame(b) == [b |-> b, part |-> "key", n |-> 0, add |-> FALSE]

Pop(s) == SubSeq(s, 1, Len(s) - 1)

SetTop(s, f) == [s EXCEPT ![Len(s)] = f]

\* The code with the pending addition of the innermost frame emitted.
Flush(fs, code) == IF Top(fs).add THEN Append(code, Instr("ADD", 0)) ELSE code

\* The expression that starts at toks[i].  operand: an operand is expected
\* (the start, after "+", after an opening bracket, after "," or ":");
\* otherwise an operand has just ended.
RECURSIVE PExprFrom(_, _, _, _, _)
PExprFrom(toks, i, operand, fs, code) ==
  LET f == Top(fs)
      t == toks[i]
      closed == SetTop(fs, [f EXCEPT !.add = FALSE])
  IN
  IF operand THEN
    IF i > Len(toks) THEN Fail(i)
    ELSE IF t.k = "name" THEN PExprFrom(toks, i + 1, FALSE, fs, Append(code, Load(t.v)))
    ELSE IF t.k = "num"
         THEN PExprFrom(toks, i + 1, FALSE, fs, Append(code, Const("int", t.v)))
    ELSE IF t.k = "str"
         THEN PExprFrom(toks, StrRunEnd(toks, i), FALSE, fs,
                        Append(code, Const("str", t.v)))
    ELSE IF IsKw(t, S_True) \/ IsKw(t, S_False)
         THEN PExprFrom(toks, i + 1, FALSE, fs, Append(code, Const("bool", t.v)))
    ELSE IF IsOp(t, "{") THEN PExprFrom(toks, i + 1, TRUE, Append(fs, Frame("{")), code)
    \* ")" right after "(" or after a comma: a comma may follow the last argument
    ELSE IF IsOp(t, ")") /\ f.b = "(" /\ ~f.add
         THEN PExprFrom(toks, i + 1, FALSE, Pop(fs), Append(code, Instr("CALL", f.n)))
    ELSE IF IsOp(t, "}") /\ f.b = "{" /\ f.part = "key" /\ ~f.add
         THEN PExprFrom(toks, i + 1, FALSE, Pop(fs), Append(code, Instr("DICT", f.n)))
    ELSE Fail(i)
  ELSE
    IF i > Len(toks) THEN IF f.b = "" THEN Done(i, Flush(fs, code)) ELSE Fail(i)
    ELSE IF IsOp(t, "(") THEN PExprFrom(toks, i + 1, TRUE, Append(fs, Frame("(")), code)
    ELSE IF IsOp(t, "+")
         THEN PExprFrom(toks, i + 1, TRUE, SetTop(fs, [f EXCEPT !.add = TRUE]),
                        Flush(fs, code))
    ELSE IF f.b = "" THEN Done(i, Flush(fs, code))
    ELSE IF IsOp(t, ",") /\ (f.b = "(" \/ f.part = "val")
         THEN PExprFrom(toks, i + 1, TRUE,
                        SetTop(fs, [f EXCEPT !.add = FALSE, !.n = @ + 1, !.part = "key"]),
                        Flush(fs, code))
    ELSE IF IsOp(t, ":") /\ f.b = "{" /\ f.part = "key"
         THEN PExprFrom(toks, i + 1, TRUE,
                        SetTop(fs, [f EXCEPT !.add = FALSE, !.part = "val"]),
                        Flush(fs, code))
    ELSE IF IsOp(t, ")") /\ f.b = "("
         THEN PExprFrom(toks, i + 1, FALSE, Pop(fs),
                        Append(Flush(fs, code), Instr("CALL", f.n + 1)))
    ELSE IF IsOp(t, "}") /\ f.b = "{" /\ f.part = "val"
         THEN PExprFrom(toks, i + 1, FALSE, Pop(fs),
                        Append(Flush(fs, code), Instr("DICT", f.n + 1)))
    ELSE Fail(i)

PExpr(toks, i) == PExprFrom(toks, i, TRUE, <<Frame("")>>, <<>>)

\* Parameter names after "(" of a def, up to ")".
RECURSIVE PParams(_, _, _)
PParams(toks, i, acc) ==
  IF Has(toks, i, ")") THEN [ok |-> TRUE, i |-> i + 1, names |-> acc]
  ELSE IF i <= Len(toks) /\ toks[i].k = "name" THEN
    IF Has(toks, i + 1, ",") THEN PParams(toks, i + 2, Append(acc, toks[i].v))
    ELSE IF Has(toks, i + 1, ")") THEN [ok |-> TRUE, i |-> i + 2, names |-> Append(acc, toks[i].v)]
    ELSE Fail(i + 1)
  ELSE Fail(i)

NoErr == [exc |-> "", msg |-> "", line |-> 0, within |-> ""]

Nil == <<>>

\* The innermost bracket open before token at, "" outside brackets.
Within(toks, at) ==
  LET s == Brackets(SubSeq(toks, 1, at - 1), 1, <<>>)
  IN IF Len(s) = 0 THEN "" ELSE Top(s)[1]

\* A syntax error at token at (at the last token when the line ended early).
SynErr(msg, toks, at) ==
  [exc |-> "SyntaxError", msg |-> msg,
   line |-> toks[IF at > Len(toks) THEN Len(toks) ELSE at].ln,
   within |-> Within(toks, at)]

Stmt(kind, name, expr) == [kind |-> kind, name |-> name, expr |-> expr, err |-> NoErr]

Bad(e) == [kind |-> "bad", name |-> <<>>, expr |-> Nil, err |-> e]

\* Nothing may follow a complete statement on its line.
Ended(toks, i, stmt) ==
  IF i > Len(toks) THEN stmt ELSE Bad(SynErr("invalid syntax", toks, i))

ParseDef(toks) ==
  IF ~(Len(toks) >= 2 /\ toks[2].k = "name") THEN Bad(SynErr("invalid syntax", toks, 2))
  ELSE IF ~Has(toks, 3, "(") THEN Bad(SynErr("invalid syntax", toks, 3))
  ELSE LET p == PParams(toks, 4, <<>>) IN
    IF ~p.ok THEN Bad(SynErr("invalid syntax", toks, p.at))
    ELSE IF ~Has(toks, p.i, ":") THEN Bad(SynErr("expected ':'", toks, p.i))
    ELSE Ended(toks, p.i + 1, Stmt("def", toks[2].v, Nil))

ParseIf(toks) ==
  LET c == PExpr(toks, 2) IN
    IF ~c.ok THEN Bad(SynErr("invalid syntax", toks, c.at))
    ELSE IF ~Has(toks, c.i, ":") THEN Bad(SynErr("expected ':'", toks, c.i))
    ELSE Ended(toks, c.i + 1, Stmt("if", <<>>, c.code))

ParseReturn(toks) ==
  IF Len(toks) = 1 THEN Stmt("return", <<>>, Nil)
  ELSE LET e == PExpr(toks, 2) IN
    IF ~e.ok THEN Bad(SynErr("invalid syntax", toks, e.at))
    ELSE Ended(toks, e.i, Stmt("return", <<>>, e.code))

ParseImport(toks) ==
  IF ~(Len(toks) >= 2 /\ toks[2].k = "name") THEN Bad(SynErr("invalid syntax", toks, 2))
  ELSE Ended(toks, 3, Stmt("import", toks[2].v, Nil))

\* An expression statement, or an assignment when "=" follows: the target
\* must be a name.
ParseExprStmt(toks) ==
  LET e == PExpr(toks, 1) IN
    IF ~e.ok THEN Bad(SynErr("invalid syntax", toks, e.at))
    ELSE IF ~Has(toks, e.i, "=") THEN Ended(toks, e.i, Stmt("expr", <<>>, e.code))
    ELSE IF Len(e.code) = 1 /\ e.code[1].op = "CONST"
         THEN Bad(SynErr("cannot assign to literal", toks, 1))
    ELSE IF ~(Len(e.code) = 1 /\ e.code[1].op = "LOAD")
         THEN Bad(SynErr("cannot assign to expression", toks, 1))
    ELSE LET r == PExpr(toks, e.i + 1) IN
      IF ~r.ok THEN Bad(SynErr("invalid syntax", toks, r.at))
      ELSE Ended(toks, r.i, Stmt("assign", e.code[1].v, r.code))

\* The statement of one logical line (toks is not empty).
ParseStmt(toks) ==
  IF IsKw(toks[1], S_def) THEN ParseDef(toks)
  ELSE IF IsKw(toks[1], S_if) THEN ParseIf(toks)
  ELSE IF IsKw(toks[1], S_return) THEN ParseReturn(toks)
  ELSE IF IsKw(toks[1], S_import) THEN ParseImport(toks)
  ELSE ParseExprStmt(toks)

IsCompound(kind) == kind \in {"def", "if"}

(***************************************************************************)
(* The evaluator: the type an expression yields, or the exception raised.  *)
(***************************************************************************)
Builtins == {S_print}

S_os == <<"o","s">>
S_sys == <<"s","y","s">>

\* The modules an import can find; the module the file imports is not one.
Modules == {S_os, S_sys}

Val(ty) == [exc |-> "", ty |-> ty]

Raise(exc) == [exc |-> exc, ty |-> ""]

Lookup(name, env) ==
  IF \E g \in env : g.name = name THEN Val((CHOOSE g \in env : g.name = name).ty)
  ELSE IF name \in Builtins THEN Val("builtin")
  ELSE Raise("NameError")

Numeric == {"int", "bool"}

AddTypes(a, b) ==
  IF a = "any" \/ b = "any" THEN Val("any")
  ELSE IF a \in Numeric /\ b \in Numeric THEN Val("int")
  ELSE IF a = "str" /\ b = "str" THEN Val("str")
  ELSE Raise("TypeError")

CallType(f) ==
  IF f = "builtin" THEN Val("none")
  ELSE IF f \in {"func", "any"} THEN Val("any")
  ELSE Raise("TypeError")

\* The value stack st without its n topmost values.
Drop(st, n) == SubSeq(st, 1, Len(st) - n)

\* The instructions code[i..] on the value stack st, in order.
RECURSIVE EvalFrom(_, _, _, _)
EvalFrom(code, i, st, env) ==
  IF i > Len(code) THEN Val(IF Len(st) = 0 THEN "none" ELSE Top(st))
  ELSE LET c == code[i]
           r == IF c.op = "LOAD" THEN Lookup(c.v, env)
                ELSE IF c.op = "CONST" THEN Val(c.ty)
                ELSE IF c.op = "ADD" THEN AddTypes(st[Len(st) - 1], st[Len(st)])
                ELSE IF c.op = "CALL" THEN CallType(st[Len(st) - c.n])
                ELSE Val("dict")
           used == IF c.op = "ADD" THEN 2
                   ELSE IF c.op = "CALL" THEN c.n + 1
                   ELSE IF c.op = "DICT" THEN 2 * c.n
                   ELSE 0
       IN IF r.exc # "" THEN r
          ELSE EvalFrom(code, i + 1, Append(Drop(st, used), r.ty), env)

Eval(code, env) == EvalFrom(code, 1, <<>>, env)

(***************************************************************************)
(* Consumers that read the stored file as a sequence of lines.             *)
(***************************************************************************)
\* A read that consumes: the line read is taken out of the store.
StoredAfterTake(txt, pos) == SubSeq(txt, 1, pos) \o SubSeq(txt, pos + 2, Len(txt))

\* What the store holds after a consumer has read the line after position pos.
StoredAfterRead(txt, pos) == txt

\* The line a read at position pos returns.
LineAt(txt, pos) == txt[pos + 1]

ReadLine(c) ==
  /\ rpos[c] < Len(content)
  /\ rgot' = [rgot EXCEPT ![c] = Append(@, LineAt(content, rpos[c]))]
  /\ rpos' = [rpos EXCEPT ![c] = @ + 1]
  /\ content' = StoredAfterRead(content, rpos[c])
  /\ UNCHANGED loaderVars

\* A consumer closes the file and opens it again: it reads from the first line.
Reopen(c) ==
  /\ rpos[c] > 0
  /\ rpos' = [rpos EXCEPT ![c] = 0]
  /\ rgot' = [rgot EXCEPT ![c] = <<>>]
  /\ UNCHANGED <<content, loaderVars>>

(***************************************************************************)
(* The loader: parse the unit, run its top-level statements in order, then *)
(* call the functions it defined.                                          *)
(***************************************************************************)
\* The units: 0 is the whole file, n > 0 the fragment numbered n on its own.
Units(txt) == {0} \cup {HeaderNumber(txt[h]) : h \in HeaderLines(txt)}

UnitLo(txt, u) == IF u = 0 THEN 1 ELSE HeaderOf(txt, u)

UnitHi(txt, u) == IF u = 0 THEN Len(txt) ELSE FragmentEnd(txt, HeaderOf(txt, u))

TabErr(lnno) ==
  [exc |-> "TabError", msg |-> "inconsistent use of tabs and spaces in indentation",
   line |-> lnno, within |-> ""]

DedentErr(lnno) ==
  [exc |-> "IndentationError",
   msg |-> "unindent does not match any outer indentation level",
   line |-> lnno, within |-> ""]

IndentErr(msg, lnno) ==
  [exc |-> "IndentationError", msg |-> msg, line |-> lnno, within |-> ""]

StringErr(lnno, br) ==
  [exc |-> "SyntaxError", msg |-> "unterminated string literal", line |-> lnno,
   within |-> IF Len(br) = 0 THEN "" ELSE Top(br)[1]]

UnclosedErr(br) ==
  [exc |-> "SyntaxError", msg |-> "bracket was never closed", line |-> Top(br)[2],
   within |-> Top(br)[1]]

\* A parser that takes any indentation after a statement.
BlockErrorNever(exp, indent, lnno) == NoErr

\* A statement has its indented block when an INDENT follows its header line.
BlockError(exp, indent, lnno) ==
  IF exp # 0 /\ ~indent THEN IndentErr("expected an indented block", lnno)
  ELSE IF exp = 0 /\ indent THEN IndentErr("unexpected indent", lnno)
  ELSE NoErr

\* One physical line through the tokenizer and the parser.  s is the parse
\* state [indents, expect, pending, opens, stmts]; the result adds err and
\* by: "" no error, "tokenizer", "parser" (tokens of the line were read) or
\* "block" (a parser error at the first token: the line's tokens are unread).
ParseStep(line, lnno, s) ==
  LET inBr == Len(s.opens) > 0
      step == IF inBr THEN [stack |-> s.indents, indent |-> FALSE, error |-> ""]
              ELSE IndentStep(s.indents, IndentCol(line, 1, 0), AltCol(line))
      blk == IF inBr THEN NoErr ELSE BlockError(s.expect, step.indent, lnno)
      lx == Lex(line, lnno)
      toks == s.pending \o lx.toks
      br == Brackets(lx.toks, 1, s.opens)
      s1 == [s EXCEPT !.indents = step.stack]
  IN
  IF ~inBr /\ (IsBlankLine(line) \/ IsCommentLine(line))
  THEN [s |-> s, err |-> NoErr, by |-> ""]
  ELSE IF step.error = "tab" THEN [s |-> s1, err |-> TabErr(lnno), by |-> "tokenizer"]
  ELSE IF step.error = "dedent"
       THEN [s |-> s1, err |-> DedentErr(lnno), by |-> "tokenizer"]
  ELSE IF blk # NoErr THEN [s |-> s1, err |-> blk, by |-> "block"]
  ELSE IF lx.bad THEN [s |-> s1, err |-> StringErr(lnno, br), by |-> "tokenizer"]
  ELSE IF Len(br) > 0 \/ Len(toks) = 0
       THEN [s |-> [s1 EXCEPT !.pending = toks, !.opens = br],
             err |-> NoErr, by |-> ""]
  ELSE LET st == ParseStmt(toks) IN
    IF st.err # NoErr
    THEN [s |-> [s1 EXCEPT !.pending = <<>>, !.opens = <<>>],
          err |-> st.err, by |-> "parser"]
    ELSE [s |-> [s1 EXCEPT !.pending = <<>>, !.opens = <<>>,
                           !.expect = IF IsCompound(st.kind) THEN toks[1].ln ELSE 0,
                           !.stmts = Append(@, [line |-> toks[1].ln,
                                                col |-> Top(step.stack)[1],
                                                kind |-> st.kind, name |-> st.name,
                                                expr |-> st.expr])],
          err |-> NoErr, by |-> ""]

\* Statement i is inside the body of a def.
InFunction(ss, i) ==
  \E d \in 1..(i - 1) :
    /\ ss[d].kind = "def"
    /\ \A j \in (d + 1)..i : ss[j].col > ss[d].col

\* At the end of the source: an open bracket, a missing block, or a return
\* outside a function reject the unit.
EndError(s, hi) ==
  IF Len(s.opens) > 0 THEN UnclosedErr(s.opens)
  ELSE IF s.expect # 0 THEN IndentErr("expected an indented block", hi)
  ELSE IF \E i \in 1..Len(s.stmts) : s.stmts[i].kind = "return" /\ ~InFunction(s.stmts, i)
       THEN LET i == CHOOSE i \in 1..Len(s.stmts) :
                       s.stmts[i].kind = "return" /\ ~InFunction(s.stmts, i)
            IN [exc |-> "SyntaxError", msg |-> "'return' outside function",
                line |-> s.stmts[i].line, within |-> ""]
  ELSE NoErr

\* The rest of the source through the tokenizer alone, after a parser error:
\* an unterminated string replaces the error, a tokenizer indentation error
\* ends the pass.  Result: [indents, opens, err, stop].
ScanStep(line, lnno, mid, stack, br, e) ==
  LET inBr == Len(br) > 0
      step == IF inBr \/ mid THEN [stack |-> stack, indent |-> FALSE, error |-> ""]
              ELSE IndentStep(stack, IndentCol(line, 1, 0), AltCol(line))
      lx == Lex(line, lnno)
      br2 == Brackets(lx.toks, 1, br)
  IN
  IF ~inBr /\ ~mid /\ (IsBlankLine(line) \/ IsCommentLine(line))
  THEN [indents |-> stack, opens |-> br, err |-> e, stop |-> FALSE]
  ELSE IF step.error # ""
       THEN [indents |-> step.stack, opens |-> br, err |-> e, stop |-> TRUE]
  ELSE IF lx.bad
       THEN [indents |-> step.stack, opens |-> br2, err |-> StringErr(lnno, br2),
             stop |-> TRUE]
  ELSE [indents |-> step.stack, opens |-> br2, err |-> e, stop |-> FALSE]

\* At the end of the tokenizer's pass: a bracket opened before the error's
\* line and never closed replaces the error.
ScanEndError(br, e) ==
  IF Len(br) > 0 /\ e.line > Top(br)[2] THEN UnclosedErr(br) ELSE e

\* The index after the block of statement i: the next statement not nested in it.
RECURSIVE SkipBody(_, _, _)
SkipBody(ss, i, col) ==
  IF i <= Len(ss) /\ ss[i].col > col THEN SkipBody(ss, i + 1, col) ELSE i

AfterBlock(ss, i) == SkipBody(ss, i + 1, ss[i].col)

Bind(env, name, ty) == {g \in env : g.name # name} \cup {[name |-> name, ty |-> ty]}

RunErr(exc, lnno) == [exc |-> exc, msg |-> "", line |-> lnno, within |-> ""]

\* One statement executed in environment env (a set of bindings):
\* [env, next, exc, ret]: the bindings after it, the index of the statement
\* that follows, the exception raised ("" for none), whether it returned.
ExecStmt(ss, i, env) ==
  LET s == ss[i]
      r == IF s.kind \in {"def", "import"} THEN Val("none") ELSE Eval(s.expr, env)
  IN
  IF s.kind = "def"
  THEN [env |-> Bind(env, s.name, "func"), next |-> AfterBlock(ss, i), exc |-> "",
        ret |-> FALSE]
  ELSE IF s.kind = "import" THEN
    IF s.name \in Modules
    THEN [env |-> Bind(env, s.name, "module"), next |-> i + 1, exc |-> "", ret |-> FALSE]
    ELSE [env |-> env, next |-> i, exc |-> "ModuleNotFoundError", ret |-> FALSE]
  ELSE IF r.exc # "" THEN [env |-> env, next |-> i, exc |-> r.exc, ret |-> FALSE]
  ELSE IF s.kind = "assign"
       THEN [env |-> Bind(env, s.name, r.ty), next |-> i + 1, exc |-> "", ret |-> FALSE]
  ELSE IF s.kind = "if"
       THEN [env |-> env,
             next |-> IF s.expr = <<Const("bool", S_False)>>
                      THEN AfterBlock(ss, i) ELSE i + 1,
             exc |-> "", ret |-> FALSE]
  ELSE [env |-> env, next |-> i + 1, exc |-> "", ret |-> s.kind = "return"]

\* The module-level defs, in order: the functions a loaded unit offers.
TopDefs(ss) == {i \in 1..Len(ss) : ss[i].kind = "def" /\ ss[i].col = 0}

NextDef(ss, after) ==
  LET ds == {i \in TopDefs(ss) : i > after}
  IN IF ds = {} THEN 0 ELSE CHOOSE i \in ds : \A j \in ds : i <= j

ParseState == [indents |-> indents, expect |-> expect, pending |-> pending,
               opens |-> opens, stmts |-> stmts]

\* The harness takes the fragments in file order: a fragment is loaded once
\* those before it have a result; earlier fragments and the whole file may
\* be loaded again at any time.
StartLoad(u, tf) ==
  /\ phase = "idle"
  /\ u <= Len(results) + 1
  /\ unit' = u
  /\ tokFirst' = tf
  /\ phase' = "parse"
  /\ ln' = UnitLo(content, u)
  /\ midline' = FALSE
  /\ indents' = <<<<0, 0>>>>
  /\ expect' = 0
  /\ pending' = <<>>
  /\ opens' = <<>>
  /\ stmts' = <<>>
  /\ err' = NoErr
  /\ pc' = 0
  /\ callee' = 0
  /\ globals' = {}
  /\ locals' = {}
  /\ executed' = {}
  /\ UNCHANGED <<content, readerVars, results>>

\* The tokenizer and the parser take the next physical line.  A tokenizer
\* error rejects the unit at once; after a parser error a loader that puts
\* tokenizer errors first reads on through the rest of the source.
ParseLine ==
  /\ phase = "parse"
  /\ ln <= UnitHi(content, unit)
  /\ LET r == ParseStep(content[ln], ln, ParseState) IN
       /\ indents' = r.s.indents
       /\ expect' = r.s.expect
       /\ pending' = r.s.pending
       /\ opens' = r.s.opens
       /\ stmts' = r.s.stmts
       /\ err' = r.err
       /\ phase' = IF r.by = "" THEN "parse"
                   ELSE IF r.by = "tokenizer" \/ ~tokFirst THEN "failed"
                   ELSE "scan"
       /\ midline' = (r.by = "block" /\ tokFirst)
       /\ ln' = IF r.by = "" \/ (r.by = "parser" /\ tokFirst) THEN ln + 1 ELSE ln
  /\ UNCHANGED <<content, readerVars, unit, tokFirst, pc, callee, globals, locals,
                 executed, results>>

\* The end of the source: the unit is rejected, or parsed and ready to run.
ParseEnd ==
  /\ phase = "parse"
  /\ ln > UnitHi(content, unit)
  /\ LET e == EndError(ParseState, UnitHi(content, unit)) IN
       /\ err' = e
       /\ phase' = IF e = NoErr THEN "run" ELSE "failed"
       /\ pc' = IF e = NoErr THEN 1 ELSE pc
  /\ UNCHANGED <<content, readerVars, unit, tokFirst, ln, midline, indents, expect,
                 pending, opens, stmts, callee, globals, locals, executed, results>>

ScanLine ==
  /\ phase = "scan"
  /\ ln <= UnitHi(content, unit)
  /\ LET r == ScanStep(content[ln], ln, midline, indents, opens, err) IN
       /\ indents' = r.indents
       /\ opens' = r.opens
       /\ err' = r.err
       /\ phase' = IF r.stop THEN "failed" ELSE "scan"
       /\ ln' = IF r.stop THEN ln ELSE ln + 1
  /\ midline' = FALSE
  /\ UNCHANGED <<content, readerVars, unit, tokFirst, expect, pending, stmts, pc,
                 callee, globals, locals, executed, results>>

ScanEnd ==
  /\ phase = "scan"
  /\ ln > UnitHi(content, unit)
  /\ err' = ScanEndError(opens, err)
  /\ phase' = "failed"
  /\ UNCHANGED <<content, readerVars, unit, tokFirst, ln, midline, indents, expect,
                 pending, opens, stmts, pc, callee, globals, locals, executed, results>>

\* Run phase: the next module-level statement.
RunStmt ==
  /\ phase = "run"
  /\ pc <= Len(stmts)
  /\ LET r == ExecStmt(stmts, pc, globals) IN
       /\ executed' = executed \cup {stmts[pc].line}
       /\ globals' = r.env
       /\ pc' = r.next
       /\ err' = IF r.exc = "" THEN err ELSE RunErr(r.exc, stmts[pc].line)
       /\ phase' = IF r.exc = "" THEN "run" ELSE "failed"
  /\ UNCHANGED <<content, readerVars, unit, tokFirst, ln, midline, indents, expect,
                 pending, opens, stmts, callee, locals, results>>

\* All module-level statements have run: the functions defined are called,
\* in order of definition.
RunEnd ==
  /\ phase = "run"
  /\ pc > Len(stmts)
  /\ callee' = NextDef(stmts, 0)
  /\ pc' = IF callee' = 0 THEN pc ELSE callee' + 1
  /\ phase' = IF callee' = 0 THEN "done" ELSE "call"
  /\ locals' = {}
  /\ UNCHANGED <<content, readerVars, unit, tokFirst, ln, midline, indents, expect,
                 pending, opens, stmts, err, globals, executed, results>>

\* Call phase: the next statement of the called function's body, or its end.
CallStep ==
  /\ phase = "call"
  /\ LET atEnd == pc > Len(stmts) \/ stmts[pc].col <= stmts[callee].col
         r == ExecStmt(stmts, pc, globals \cup locals)
         returns == atEnd \/ (r.exc = "" /\ r.ret)
         nxt == NextDef(stmts, callee)
     IN
       /\ executed' = IF atEnd THEN executed ELSE executed \cup {stmts[pc].line}
       /\ err' = IF ~atEnd /\ r.exc # "" THEN RunErr(r.exc, stmts[pc].line) ELSE err
       /\ phase' = IF ~atEnd /\ r.exc # "" THEN "failed"
                   ELSE IF returns /\ nxt = 0 THEN "done" ELSE "call"
       /\ callee' = IF returns THEN nxt ELSE callee
       /\ pc' = IF returns THEN (IF nxt = 0 THEN pc ELSE nxt + 1)
                ELSE IF r.exc # "" THEN pc ELSE r.next
       /\ locals' = IF returns THEN {}
                    ELSE IF r.exc # "" THEN locals
                    ELSE {g \in r.env : g \notin globals}
  /\ UNCHANGED <<content, readerVars, unit, tokFirst, ln, midline, indents, expect,
                 pending, opens, stmts, globals, results>>

\* The class of mistake a failure stands for, "none" for no failure and
\* "other" for a failure outside the classes the file sets out to show.
MistakeClass(e) ==
  IF e.exc = "" THEN "none"
  ELSE IF e.exc = "TabError" THEN "mixed whitespace"
  ELSE IF e.exc = "IndentationError" THEN "bad indentation"
  ELSE IF e.exc = "NameError" THEN "undefined name"
  ELSE IF e.exc = "TypeError" THEN "type mismatch"
  ELSE IF e.exc = "ModuleNotFoundError" THEN "bad import"
  ELSE IF e.exc = "SyntaxError" /\ e.msg = "expected ':'" THEN "missing colon"
  ELSE IF e.exc = "SyntaxError" /\ e.msg = "unterminated string literal"
       THEN "unclosed string"
  ELSE IF e.exc = "SyntaxError" /\ e.msg = "cannot assign to literal"
       THEN "invalid assignment target"
  ELSE IF e.exc = "SyntaxError" /\ e.within = "{" THEN "malformed literal"
  ELSE "other"

\* The load is over: the first result of a fragment is recorded, and the
\* loader is ready for another unit.
Unload ==
  /\ phase \in {"failed", "done"}
  /\ phase' = "idle"
  /\ results' = IF unit = Len(results) + 1 THEN Append(results, MistakeClass(err))
                ELSE results
  /\ UNCHANGED <<content, readerVars, unit, tokFirst, ln, midline, indents, expect,
                 pending, opens, stmts, err, pc, callee, globals, locals, executed>>

Init ==
  /\ content = File
  /\ rpos = [c \in Readers |-> 0]
  /\ rgot = [c \in Readers |-> <<>>]
  /\ unit = 0
  /\ tokFirst = FALSE
  /\ phase = "idle"
  /\ ln = 1
  /\ midline = FALSE
  /\ indents = <<<<0, 0>>>>
  /\ expect = 0
  /\ pending = <<>>
  /\ opens = <<>>
  /\ stmts = <<>>
  /\ err = NoErr
  /\ pc = 0
  /\ callee = 0
  /\ globals = {}
  /\ locals = {}
  /\ executed = {}
  /\ results = <<>>

NextRead == \E c \in Readers : ReadLine(c) \/ Reopen(c)

NextLoad ==
  \/ \E u \in Units(content), tf \in BOOLEAN : StartLoad(u, tf)
  \/ ParseLine
  \/ ParseEnd
  \/ ScanLine
  \/ ScanEnd
  \/ RunStmt
  \/ RunEnd
  \/ CallStep
  \/ Unload

Next == NextRead \/ NextLoad

\* Consumers reading the stored file.
SpecRead == Init /\ [][NextRead]_vars

\* The loader applied to the whole file and to each fragment.
SpecLoad == Init /\ [][NextLoad]_vars

Spec == Init /\ [][Next]_vars

(***************************************************************************)
(* Properties.                                                             *)
(***************************************************************************)
Fragments(txt) == Units(txt) \ {0}

Loaded == phase \in {"failed", "done"}

\* C1: the stored file holds exactly ten fragment headers, numbered 1 to 10,
\* each number once and in increasing order down the file, and every header
\* is followed by at least one snippet line (neither blank nor a comment)
\* before the next header or the end of the file.
C1_TenOrderedFragments ==
  LET hs == HeaderLines(content) IN
    /\ Cardinality(hs) = 10
    /\ \A n \in 1..10 : Cardinality({h \in hs : HeaderNumber(content[h]) = n}) = 1
    /\ \A g, h \in hs : g < h => HeaderNumber(content[g]) < HeaderNumber(content[h])
    /\ \A h \in hs : \E j \in (h + 1)..FragmentEnd(content, h) :
                       IsSnippetLine(content[j])

\* The loader has taken the tenth fragment, header and snippet, to its result.
C1_Witness ==
  /\ unit = 10 /\ Loaded
  /\ HeaderNumber(content[UnitLo(content, 10)]) = 10
  /\ err.line = UnitHi(content, 10)

\* C2: reads leave the stored content as it was at the start, and what a
\* consumer has been given since it opened the file is the file's lines, in
\* order, up to its position; a consumer that opens the file again is given
\* the same lines again.
C2_ReadsPreserveContent ==
  /\ content = File
  /\ \A c \in Readers : rgot[c] = SubSeq(File, 1, rpos[c])

\* One consumer has read the whole file while another is part of the way.
C2_Witness ==
  \E c, d \in Readers :
    /\ rpos[c] = Len(File) /\ rgot[c] = File
    /\ rpos[d] > 0 /\ rpos[d] < Len(File)

\* The nine classes of mistake the file sets out to show.
ListedClasses ==
  {"bad indentation", "missing colon", "undefined name", "type mismatch",
   "malformed literal", "bad import", "unclosed string", "mixed whitespace",
   "invalid assignment target"}

C4_FailsAsAnnounced ==
  (Loaded /\ unit > 0) =>
    /\ phase = "failed"
    /\ IsA(err.exc, AnnouncedExc(content[UnitLo(content, unit)]))

\* C5: no name a fragment refers to is bound by another fragment, and no two
\* fragments bind the same name.
C5_FragmentsIndependent ==
  LET defs == UNION {{<<x, n>> : x \in FragmentDefs(content, n)} :
                     n \in Fragments(content)}
      uses == UNION {{<<x, n>> : x \in FragmentUses(content, n)} :
                     n \in Fragments(content)}
  IN /\ \A u \in uses, d \in defs : u[1] = d[1] => u[2] = d[2]
     /\ \A d, e \in defs : d[1] = e[1] => d[2] = e[2]

\* Fragment 7, which refers to three names and binds one, has been loaded
\* and its call has failed on a name nothing binds.
C5_Witness ==
  /\ unit = 7 /\ phase = "failed" /\ err.exc = "NameError"
  /\ Cardinality(FragmentUses(content, 7)) = 3
  /\ Cardinality(FragmentDefs(content, 7)) = 1

\* C6 as stated: a load of the whole file never leaves the parse, executes
\* nothing, and stops at line 5.
C6_StopsAtLine5 ==
  unit = 0 =>
    /\ phase \notin {"run", "call", "done"}
    /\ executed = {}
    /\ phase = "failed" => err.line = 5

\* C6 as amended: a load of the whole file never leaves the parse and
\* executes nothing; it stops at line 5 (fragment 1: the block of the def is
\* missing), or, with a loader that reports tokenizer errors of the rest of
\* the source first, at line 36 (fragment 8: the string is not closed).
C6_NeverRuns ==
  unit = 0 =>
    /\ phase \notin {"run", "call", "done"}
    /\ executed = {}
    /\ phase = "failed" =>
         \/ ~tokFirst /\ err.line = 5 /\ err.exc = "IndentationError"
         \/ tokFirst /\ err.line = 36 /\ err.msg = "unterminated string literal"

\* The whole file has been rejected by a loader that puts tokenizer errors
\* first: the def of line 4 was parsed, and the failure is that of line 36.
C6_Witness ==
  unit = 0 /\ phase = "failed" /\ tokFirst /\ err.line = 36 /\ Len(stmts) = 1
====
